---- MODULE Spec2Model ----
(***************************************************************************)
(* A model of ComDaAn's log extraction and aggregation pipeline:           *)
(*   - GitParser.add_repository / add_repositories  (repository locator)   *)
(*   - GitParser.get_log and its per-record pipeline (history extractor)   *)
(*   - get_log_from_repositories                     (parallel collector)  *)
(*   - the weekly aggregation of authorage.py        (aggregator)          *)
(* Each part has its own specification (SpecLocator, SpecExtract,          *)
(* SpecCollect, SpecAgg); the variables of the other parts stay idle.      *)
(***************************************************************************)
EXTENDS Integers, Sequences, FiniteSets, TLC

VARIABLES
    kind,        \* filesystem: node -> "repo" (has .git) | "dir" | "file"
    children,    \* filesystem: node -> entries os.listdir returns (symlinks are edges)
    paths,       \* GitParser.__paths
    stack,       \* active frames of __add_repositories, innermost last
    ncalls,      \* top-level calls made so far
    raised,      \* exception raised by the last top-level call, or "none"
    now,         \* GitParser.now, read from the clock when the parser is built
    start_date,  \* --start as a day number, or None
    end_date,    \* --end as a day number, or None
    repo_path,   \* the repository root get_log is extracting
    pc,          \* position of the extraction in its per-record pipeline
    cur,         \* the entry travelling through the pipeline
    nread,       \* records of the raw log consumed so far
    out,         \* entries handed to pandas.DataFrame
    error,       \* exception that ended the extraction, or "none"
    col_paths,   \* the paths handed to get_log_from_repositories
    hist,        \* position -> raw log of the repository at that path
    clock,       \* the wall clock, 0 when get_log_from_repositories is called
    jobs,        \* position -> the pool's job for that path
    finished,    \* positions in the order their jobs completed
    awaited,     \* results already taken by p.get(), in input order
    outcome,     \* what get_log_from_repositories ended with
    log,         \* the merged table: (author_name, date in days) -> number of commits
    data         \* the weekly aggregate computed from log, once computed

locVars == <<kind, children, paths, stack, ncalls, raised>>
extVars == <<now, start_date, end_date, repo_path, pc, cur, nread, out, error>>
colVars == <<col_paths, hist, clock, jobs, finished, awaited, outcome>>
aggVars == <<log, data>>

vars == <<locVars, extVars, colVars, aggVars>>

(***************************************************************************)
(* Bounds                                                                  *)
(***************************************************************************)
NumNodes == 3      \* filesystem objects
MaxCalls == 2      \* top-level add_repository / add_repositories calls
MaxArgs == 2       \* paths handed to one add_repositories call
MaxPathLen == 4    \* longest path the platform still resolves (PATH_MAX, ELOOP)
MaxTick == 2       \* instants are 0..MaxTick
TicksPerDay == 2   \* instants per calendar day
MaxLog == 2        \* records in one repository's raw log
NumRulesets == 1   \* modules found in the rulesets directory
MaxPaths == 2      \* paths handed to get_log_from_repositories
NumWorkers == 2    \* processes of the pool (os.cpu_count())
NumWeeks == 4      \* calendar weeks commits fall in
MaxCommits == 5    \* rows of the merged table

(***************************************************************************)
(* Repository locator                                                      *)
(***************************************************************************)
Nodes == 1..NumNodes
Kinds == {"repo", "dir", "file"}
NotAString == <<0>>

\* A path is the sequence of entry names from the root; the object it
\* designates is the one its last name leads to (symlinks are followed).
Resolved(path) == path[Len(path)]

\* os.path.exists(os.path.join(abs_path, ".git"))
HasGit(path) == Len(path) <= MaxPathLen /\ kind[Resolved(path)] = "repo"

\* os.path.isdir(abs_path)
IsDir(path) == Len(path) <= MaxPathLen /\ kind[Resolved(path)] \in {"repo", "dir"}

RECURSIVE SetToSeq(_)
SetToSeq(S) ==
    IF S = {} THEN <<>>
    ELSE LET m == CHOOSE x \in S : \A y \in S : x <= y
         IN  <<m>> \o SetToSeq(S \ {m})

\* list(map(lambda x: os.path.join(abs_path, x), os.listdir(abs_path)))
Subpaths(path) ==
    LET names == SetToSeq(children[Resolved(path)])
    IN  [i \in 1..Len(names) |-> Append(path, names[i])]

InputPaths == {<<n>> : n \in Nodes}
InputLists == UNION {[1..k -> InputPaths] : k \in 1..MaxArgs}

LocatorIdle ==
    /\ kind = [n \in Nodes |-> "file"]
    /\ children = [n \in Nodes |-> {}]
    /\ paths = <<>>
    /\ stack = <<>>
    /\ ncalls = 0
    /\ raised = "none"

LocatorStart ==
    /\ kind \in [Nodes -> Kinds]
    /\ children \in [Nodes -> SUBSET Nodes]
    /\ \A n \in Nodes : kind[n] # "dir" => children[n] = {}
    /\ paths = <<>>
    /\ stack = <<>>
    /\ ncalls = 0
    /\ raised = "none"

\* add_repository(path), called by the user
AddRepository(path) ==
    /\ stack = <<>>
    /\ ncalls < MaxCalls
    /\ ncalls' = ncalls + 1
    /\ IF path = NotAString \/ ~HasGit(path)
       THEN raised' = "ValueError" /\ paths' = paths
       ELSE raised' = "none" /\ paths' = Append(paths, path)
    /\ UNCHANGED <<kind, children, stack, extVars, colVars, aggVars>>

\* add_repositories(paths), called by the user: enters __add_repositories
AddRepositories(ps) ==
    /\ stack = <<>>
    /\ ncalls < MaxCalls
    /\ ncalls' = ncalls + 1
    /\ raised' = "none"
    /\ stack' = <<[dir |-> <<>>, todo |-> ps]>>
    /\ UNCHANGED <<kind, children, paths, extVars, colVars, aggVars>>

\* one iteration of the loops of __add_repositories in the innermost frame
ResolveStep ==
    /\ stack # <<>>
    /\ LET top  == stack[Len(stack)]
           rest == SubSeq(stack, 1, Len(stack) - 1)
       IN  /\ top.todo # <<>>
           /\ LET path == Head(top.todo)
                  popped == Append(rest, [top EXCEPT !.todo = Tail(top.todo)])
              IN  IF HasGit(path)
                  THEN /\ paths' = Append(paths, path)
                       /\ stack' = popped
                  ELSE IF IsDir(path)
                  THEN /\ paths' = paths
                       /\ stack' = Append(popped, [dir |-> path, todo |-> Subpaths(path)])
                  ELSE /\ paths' = paths
                       /\ stack' = popped
    /\ UNCHANGED <<kind, children, ncalls, raised, extVars, colVars, aggVars>>

\* the loops of the innermost frame are exhausted: the call returns
ResolveReturn ==
    /\ stack # <<>>
    /\ stack[Len(stack)].todo = <<>>
    /\ stack' = SubSeq(stack, 1, Len(stack) - 1)
    /\ UNCHANGED <<kind, children, paths, ncalls, raised, extVars, colVars, aggVars>>

LocatorNext ==
    \/ \E p \in InputPaths \cup {NotAString} : AddRepository(p)
    \/ \E ps \in InputLists : AddRepositories(ps)
    \/ ResolveStep
    \/ ResolveReturn

(***************************************************************************)
(* History extractor                                                       *)
(***************************************************************************)
GIT_COMMIT_FIELDS == <<"id", "author_name", "author_email", "date", "message", "files">>

Ticks == 0..MaxTick
Days == 0..(MaxTick \div TicksPerDay)
Rulesets == 1..NumRulesets
Roots == {<<"a", "proj">>, <<"b", "proj">>, <<"a", "lib">>}
ExitCodes == {0, 128}
ExtractRoots == {r \in Roots : r[1] = "a"}

\* os.path.basename(path)
Basename(path) == path[Len(path)]

\* an optional day argument: None, or a "%Y-%m-%d" string
NoDay == [given |-> FALSE, day |-> 0]
DayArgs == {NoDay} \cup {[given |-> TRUE, day |-> d] : d \in Days}

\* the text of a date field: "%Y-%m-%d %H:%M:%S %z" (local instant t, zone
\* offset z) or something strptime rejects
NoValue == [fmt |-> "absent", t |-> 0, z |-> 0]
RawDates ==
    {[fmt |-> "garbage", t |-> 0, z |-> 0]}
        \cup {[fmt |-> "iso", t |-> t, z |-> z] : t \in Ticks, z \in {0, 1}}

\* row.strip().split("\x1f") of the record of commit h: n fields, in the order
\* of GIT_COMMIT_FIELDS. One field is what an empty log splits into; five is a
\* commit without changed files; six is a commit with its file list.
RawRows(h) ==
    {[n |-> 1, id |-> <<h>>, date |-> NoValue, files |-> {}, rejects |-> {}]}
        \cup {[n |-> n, id |-> <<h>>, date |-> d,
               files |-> IF n = 6 THEN {<<"f">>} ELSE {}, rejects |-> r] :
                  n \in {5, 6}, d \in RawDates, r \in SUBSET Rulesets}

\* dict(zip(GIT_COMMIT_FIELDS, row))
DictZip(row) ==
    [keys |-> {GIT_COMMIT_FIELDS[i] : i \in 1..row.n},
     id |-> row.id, date |-> row.date, files |-> row.files,
     repository |-> "", rejects |-> row.rejects, annotated |-> {}]

NoEntry == DictZip([n |-> 1, id |-> <<0>>, date |-> NoValue, files |-> {}, rejects |-> {}])

\* datetime.strptime(start_date, "%Y-%m-%d").astimezone(utc): midnight of the
\* day (the host's zone being UTC)
DayToDatetime(d) == d.day * TicksPerDay

\* __run_command that never looks at the exit status
RunCommandNeverRaises(rc) == FALSE

\* __run_command: a non-zero exit raises OSError(log)
RunCommandRaises(rc) == rc # 0

\* __format_entry_date: KeyError is swallowed, any other exception propagates
FormatEntryDate(entry) ==
    IF "date" \notin entry.keys
    THEN [exc |-> "none", entry |-> entry]
    ELSE IF entry.date.fmt = "iso"
    THEN [exc |-> "none",
          entry |-> [entry EXCEPT !.date = [fmt |-> "utc", t |-> entry.date.t - entry.date.z, z |-> 0]]]
    ELSE [exc |-> "ValueError", entry |-> entry]

\* ruleset.is_entry_acceptable(entry)
RulesetIsEntryAcceptable(r, entry) == r \notin entry.rejects

\* ruleset.postprocess_entry(entry)
RulesetPostprocessEntry(r, entry) == [entry EXCEPT !.annotated = @ \cup {r}]

\* __is_entry_acceptable, lines 142-144: every ruleset must accept
RulesetsAccept(entry) == \A r \in Rulesets : RulesetIsEntryAcceptable(r, entry)

\* the date checks without the comparison to end_datetime
DatesAcceptNoEnd(entry, start_datetime, end_datetime, nw) ==
    IF "date" \notin entry.keys THEN FALSE
    ELSE /\ ~(start_datetime.given /\ entry.date.t < DayToDatetime(start_datetime))
         /\ ~(entry.date.t > nw)

\* __is_entry_acceptable, lines 146-160: the date checks; a missing date is a
\* KeyError, answered with False
DatesAccept(entry, start_datetime, end_datetime, nw) ==
    IF "date" \notin entry.keys THEN FALSE
    ELSE /\ ~(start_datetime.given /\ entry.date.t < DayToDatetime(start_datetime))
         /\ ~(end_datetime.given /\ entry.date.t > DayToDatetime(end_datetime))
         /\ ~(entry.date.t > nw)

IsEntryAcceptable(entry, start_datetime, end_datetime, nw) ==
    RulesetsAccept(entry) /\ DatesAccept(entry, start_datetime, end_datetime, nw)

\* a ruleset loop whose verdict is not returned
AfterRulesetsIgnoringVerdict(entry) == "accept_dates"

\* where __is_entry_acceptable goes after its ruleset loop
AfterRulesets(entry) == IF RulesetsAccept(entry) THEN "accept_dates" ELSE "fetch"

\* __postprocess_entry, lines 170-179: files, repository and id take the
\* repository's name in front
Namespace(repository, entry) ==
    [entry EXCEPT
        !.files = IF "files" \in entry.keys
                  THEN {<<repository>> \o f : f \in entry.files}
                  ELSE {},
        !.keys = @ \cup {"files", "repository"},
        !.repository = repository,
        !.id = <<repository>> \o @]

\* __postprocess_entry, lines 181-182: every ruleset's postprocess_entry in turn
RECURSIVE PostRulesets(_, _)
PostRulesets(k, entry) ==
    IF k > NumRulesets THEN entry
    ELSE PostRulesets(k + 1, RulesetPostprocessEntry(k, entry))

PostprocessEntry(repository, entry) == PostRulesets(1, Namespace(repository, entry))

Namespaced(entry) == Len(entry.id) = 2

ExtractIdle ==
    /\ now = 0
    /\ start_date = NoDay
    /\ end_date = NoDay
    /\ repo_path = <<"a", "proj">>
    /\ pc = "idle"
    /\ cur = NoEntry
    /\ nread = 0
    /\ out = <<>>
    /\ error = "none"

\* get_log_from_repository on one repository root: a parser is built (reading
\* the clock) and get_log is about to run
ExtractStart ==
    /\ now \in Ticks
    /\ start_date \in DayArgs
    /\ end_date \in DayArgs
    /\ repo_path \in ExtractRoots
    /\ pc = "run"
    /\ cur = NoEntry
    /\ nread = 0
    /\ out = <<>>
    /\ error = "none"

\* __create_log_entries, line 107: git log runs and exits with rc
RunCommand(rc) ==
    /\ pc = "run"
    /\ IF RunCommandRaises(rc)
       THEN pc' = "done" /\ error' = "OSError"
       ELSE pc' = "fetch" /\ error' = error
    /\ UNCHANGED <<now, start_date, end_date, repo_path, cur, nread, out, locVars, colVars, aggVars>>

\* the DataFrame constructor pulls the next record through the lazy
\* map / filter / map chain of lines 123-125
FetchRow(row) ==
    /\ pc = "fetch"
    /\ nread < MaxLog
    /\ nread' = nread + 1
    /\ cur' = DictZip(row)
    /\ pc' = "format"
    /\ UNCHANGED <<now, start_date, end_date, repo_path, out, error, locVars, colVars, aggVars>>

\* the log is exhausted: get_log returns the DataFrame
EndOfLog ==
    /\ pc = "fetch"
    /\ pc' = "done"
    /\ cur' = NoEntry
    /\ UNCHANGED <<now, start_date, end_date, repo_path, nread, out, error, locVars, colVars, aggVars>>

\* line 123
FormatStep ==
    /\ pc = "format"
    /\ LET r == FormatEntryDate(cur)
       IN  IF r.exc = "none"
           THEN pc' = "accept_rules" /\ cur' = r.entry /\ error' = error
           ELSE pc' = "done" /\ cur' = cur /\ error' = r.exc
    /\ UNCHANGED <<now, start_date, end_date, repo_path, nread, out, locVars, colVars, aggVars>>

\* line 124, the ruleset loop of __is_entry_acceptable
AcceptRulesStep ==
    /\ pc = "accept_rules"
    /\ pc' = AfterRulesets(cur)
    /\ UNCHANGED <<now, start_date, end_date, repo_path, cur, nread, out, error, locVars, colVars, aggVars>>

\* line 124, the date checks of __is_entry_acceptable
AcceptDatesStep ==
    /\ pc = "accept_dates"
    /\ pc' = IF DatesAccept(cur, start_date, end_date, now) THEN "post_namespace" ELSE "fetch"
    /\ UNCHANGED <<now, start_date, end_date, repo_path, cur, nread, out, error, locVars, colVars, aggVars>>

\* line 125, the namespacing of __postprocess_entry
NamespaceStep ==
    /\ pc = "post_namespace"
    /\ cur' = Namespace(Basename(repo_path), cur)
    /\ pc' = "post_rules"
    /\ UNCHANGED <<now, start_date, end_date, repo_path, nread, out, error, locVars, colVars, aggVars>>

\* line 125, the ruleset loop of __postprocess_entry; the entry is yielded
PostRulesStep ==
    /\ pc = "post_rules"
    /\ cur' = PostRulesets(1, cur)
    /\ out' = Append(out, cur')
    /\ pc' = "fetch"
    /\ UNCHANGED <<now, start_date, end_date, repo_path, nread, error, locVars, colVars, aggVars>>

ExtractNext ==
    \/ \E rc \in ExitCodes : RunCommand(rc)
    \/ \E row \in RawRows(nread + 1) : FetchRow(row)
    \/ EndOfLog
    \/ FormatStep
    \/ AcceptRulesStep
    \/ AcceptDatesStep
    \/ NamespaceStep
    \/ PostRulesStep

(***************************************************************************)
(* Parallel collector                                                      *)
(***************************************************************************)
\* what git printed (stdout and stderr together) when run on path
ToolOutput(path) == <<"git-output">> \o path

\* lines 123-125 over a whole raw log: the entries get_log extends its list
\* with, or the exception the lazy chain raises on the way
RECURSIVE CreateLogEntries(_, _, _, _, _)
CreateLogEntries(path, rows, start_datetime, end_datetime, nw) ==
    IF rows = <<>> THEN [exc |-> "none", entries |-> <<>>]
    ELSE LET f == FormatEntryDate(DictZip(Head(rows)))
         IN  IF f.exc # "none" THEN [exc |-> f.exc, entries |-> <<>>]
             ELSE LET rest == CreateLogEntries(path, Tail(rows), start_datetime, end_datetime, nw)
                      this == IF IsEntryAcceptable(f.entry, start_datetime, end_datetime, nw)
                              THEN <<PostprocessEntry(Basename(path), f.entry)>>
                              ELSE <<>>
                  IN  [exc |-> rest.exc,
                       entries |-> IF rest.exc = "none" THEN this \o rest.entries ELSE <<>>]

\* get_log_from_repository on a repository root: add_repositories keeps the
\* root itself, get_log extracts its one log
GetLogFromRepository(path, rows, rc, start_datetime, end_datetime, nw) ==
    IF RunCommandRaises(rc)
    THEN [exc |-> "OSError", payload |-> ToolOutput(path), frame |-> <<>>]
    ELSE LET r == CreateLogEntries(path, rows, start_datetime, end_datetime, nw)
         IN  [exc |-> r.exc, payload |-> <<>>, frame |-> r.entries]

\* results taken as the jobs complete
ResultOrderByCompletion(n, done) == done

\* line 209: the results are taken in the order the jobs were submitted
ResultOrder(n, done) == [i \in 1..n |-> i]

\* pandas.concat of the frames
RECURSIVE Concat(_)
Concat(frames) == IF frames = <<>> THEN <<>> ELSE Head(frames) \o Concat(Tail(frames))

\* raw logs the collector's repositories hold: empty, or one commit, dated
\* when get_log_from_repositories is called or post-dated
CollectLogs ==
    {<<>>} \cup {<<[n |-> 6, id |-> <<1>>, date |-> [fmt |-> "iso", t |-> t, z |-> 0],
                    files |-> {<<"f">>}, rejects |-> {}]>> : t \in {0, MaxTick}}

PathLists ==
    {ps \in UNION {[1..k -> Roots] : k \in 1..MaxPaths} :
        \A i, j \in 1..Len(ps) : i # j => ps[i] # ps[j]}

QueuedJob == [st |-> "queued", now |-> 0, rc |-> 0, exc |-> "none", payload |-> <<>>, frame |-> <<>>]
Pending == [kind |-> "pending", exc |-> "none", payload |-> <<>>, table |-> <<>>]

CollectIdle ==
    /\ col_paths = <<>>
    /\ hist = <<>>
    /\ clock = 0
    /\ jobs = <<>>
    /\ finished = <<>>
    /\ awaited = 0
    /\ outcome = Pending

\* get_log_from_repositories(paths, None, None) has submitted one job per path
CollectStart ==
    /\ col_paths \in PathLists
    /\ hist \in [1..Len(col_paths) -> CollectLogs]
    /\ clock = 0
    /\ jobs = [i \in 1..Len(col_paths) |-> QueuedJob]
    /\ finished = <<>>
    /\ awaited = 0
    /\ outcome = Pending

NumJobs == Len(col_paths)
Started(i) == jobs[i].st # "queued"
Finished(i) == jobs[i].st \in {"ok", "failed"}

\* at time t a free worker takes the next job of the queue:
\* get_log_from_repository builds its GitParser, which reads the clock
StartJob(i, t) ==
    /\ outcome.kind = "pending"
    /\ ~Started(i)
    /\ \A j \in 1..(i - 1) : Started(j)
    /\ Cardinality({j \in 1..NumJobs : jobs[j].st = "running"}) < NumWorkers
    /\ t >= clock
    /\ clock' = t
    /\ jobs' = [jobs EXCEPT ![i] = [@ EXCEPT !.st = "running", !.now = t]]
    /\ UNCHANGED <<col_paths, hist, finished, awaited, outcome, locVars, extVars, aggVars>>

\* the job's git exits with rc; the job returns its frame or raises
FinishJob(i, rc) ==
    /\ outcome.kind = "pending"
    /\ jobs[i].st = "running"
    /\ LET r == GetLogFromRepository(col_paths[i], hist[i], rc, NoDay, NoDay, jobs[i].now)
       IN  jobs' = [jobs EXCEPT ![i] =
                       [st |-> IF r.exc = "none" THEN "ok" ELSE "failed",
                        now |-> jobs[i].now, rc |-> rc,
                        exc |-> r.exc, payload |-> r.payload, frame |-> r.frame]]
    /\ finished' = Append(finished, i)
    /\ UNCHANGED <<col_paths, hist, clock, awaited, outcome, locVars, extVars, aggVars>>

\* line 209: p.get() of the next result in input order returns or re-raises;
\* after the last one the frames are concatenated
Await ==
    /\ outcome.kind = "pending"
    /\ awaited < NumJobs
    /\ Finished(awaited + 1)
    /\ awaited' = awaited + 1
    /\ LET j == jobs[awaited + 1]
           order == ResultOrder(NumJobs, finished)
       IN  IF j.st = "failed"
           THEN outcome' = [kind |-> "error", exc |-> j.exc, payload |-> j.payload, table |-> <<>>]
           ELSE IF awaited + 1 = NumJobs
           THEN outcome' = [kind |-> "table", exc |-> "none", payload |-> <<>>,
                            table |-> Concat([k \in 1..NumJobs |-> jobs[order[k]].frame])]
           ELSE outcome' = outcome
    /\ UNCHANGED <<col_paths, hist, clock, jobs, finished, locVars, extVars, aggVars>>

CollectNext ==
    \/ \E i \in 1..NumJobs, t \in Ticks : StartJob(i, t)
    \/ \E i \in 1..NumJobs, rc \in ExitCodes : FinishJob(i, rc)
    \/ Await

(***************************************************************************)
(* Aggregator (authorage.py)                                               *)
(***************************************************************************)
Authors == {"A", "B"}
Weeks == 1..NumWeeks
\* commit dates in days; day 0 is a Monday, and commits are made on Wednesdays
CommitDays == {7 * w + 2 : w \in Weeks}
Cells == Authors \X CommitDays

\* lines 49-50: to_period("W").to_timestamp() is the Monday of the date's
\* week; three days are then taken off
Bucket(d) == (d - (d % 7)) - 3

RECURSIVE SumOver(_, _)
SumOver(S, f) ==
    IF S = {} THEN 0
    ELSE LET x == CHOOSE y \in S : TRUE
         IN  f[x] + SumOver(S \ {x}, f)

SetMin(S) == CHOOSE x \in S : \A y \in S : x <= y
SetMax(S) == CHOOSE x \in S : \A y \in S : x >= y

NaN == [nan |-> TRUE, v |-> 0]
Num(n) == [nan |-> FALSE, v |-> n]

\* the bucketed dates of an author's commits
AuthorDates(lg, a) == {Bucket(c[2]) : c \in {c \in Cells : c[1] = a /\ lg[c] > 0}}
LogAuthors(lg) == {a \in Authors : AuthorDates(lg, a) # {}}
\* the keys of log.groupby("date"), the index of data
LogDates(lg) == UNION {AuthorDates(lg, a) : a \in Authors}

\* line 54 / 56: log_by_author["date"].min()
AuthorMin(lg, a) == SetMin(AuthorDates(lg, a))
\* line 55 / 57: log_by_author["date"].max()
AuthorMax(lg, a) == SetMax(AuthorDates(lg, a))

\* line 68: log_by_date["id"].count()
CommitCount(lg, b) ==
    SumOver({c \in Cells : Bucket(c[2]) = b}, lg)

\* lines 61 and 67: the sum over a bucket's commits of (date - authors_age.min).days;
\* commit_author_age is this over 365 and over the bucket's commit count
AgeDaysSum(lg, b) ==
    LET S == {c \in Cells : Bucket(c[2]) = b /\ lg[c] > 0}
    IN  SumOver(S, [c \in S |-> lg[c] * (b - AuthorMin(lg, c[1]))])

\* lines 69-70: a groupby count assigned to a column of data: buckets the
\* groupby has no key for hold NaN
GroupCount(S) == IF S = {} THEN NaN ELSE Num(Cardinality(S))
NewcomersCount(lg, b) == GroupCount({a \in LogAuthors(lg) : AuthorMin(lg, a) = b})
LeavingCount(lg, b) == GroupCount({a \in LogAuthors(lg) : AuthorMax(lg, a) = b})

\* a running sum that a NaN poisons from its row on
CumSumPoisoned(col, b) ==
    IF \E x \in DOMAIN col : x <= b /\ col[x].nan THEN NaN
    ELSE LET S == {x \in DOMAIN col : x <= b}
         IN  Num(SumOver(S, [x \in S |-> col[x].v]))

\* lines 71-72: Series.cumsum() skips NaN: a NaN row stays NaN, the running
\* sum carries on over it
CumSum(col, b) ==
    IF col[b].nan THEN NaN
    ELSE LET S == {x \in DOMAIN col : x <= b /\ ~col[x].nan}
         IN  Num(SumOver(S, [x \in S |-> col[x].v]))

\* line 73: a difference with a NaN operand is NaN
Minus(x, y) == IF x.nan \/ y.nan THEN NaN ELSE Num(x.v - y.v)

\* lines 52-73
Aggregate(lg) ==
    LET idx == LogDates(lg)
        newc == [b \in idx |-> NewcomersCount(lg, b)]
        leav == [b \in idx |-> LeavingCount(lg, b)]
        cumn == [b \in idx |-> CumSum(newc, b)]
        cuml == [b \in idx |-> CumSum(leav, b)]
    IN  [done |-> TRUE,
         min |-> [a \in LogAuthors(lg) |-> AuthorMin(lg, a)],
         max |-> [a \in LogAuthors(lg) |-> AuthorMax(lg, a)],
         age_days_sum |-> [b \in idx |-> AgeDaysSum(lg, b)],
         commit_count |-> [b \in idx |-> CommitCount(lg, b)],
         newcomers_count |-> newc,
         leaving_count |-> leav,
         cumulative_newcomers |-> cumn,
         cumulative_leaving |-> cuml,
         active_count |-> [b \in idx |-> Minus(cumn[b], cuml[b])]]

NoData ==
    [done |-> FALSE, min |-> <<>>, max |-> <<>>, age_days_sum |-> <<>>,
     commit_count |-> <<>>, newcomers_count |-> <<>>, leaving_count |-> <<>>,
     cumulative_newcomers |-> <<>>, cumulative_leaving |-> <<>>, active_count |-> <<>>]

AggIdle ==
    /\ log = [c \in Cells |-> 0]
    /\ data = NoData

LogSize == SumOver(Cells, log)

\* one more row in the table get_log_from_repositories returns
AddCommit(a, d) ==
    /\ ~data.done
    /\ LogSize < MaxCommits
    /\ log' = [log EXCEPT ![<<a, d>>] = @ + 1]
    /\ data' = data
    /\ UNCHANGED <<locVars, extVars, colVars>>

\* the script computes its weekly table
AggregateStep ==
    /\ ~data.done
    /\ LogSize > 0
    /\ data' = Aggregate(log)
    /\ log' = log
    /\ UNCHANGED <<locVars, extVars, colVars>>

AggNext ==
    \/ \E a \in Authors, d \in CommitDays : AddCommit(a, d)
    \/ AggregateStep

(***************************************************************************)
(* Specifications                                                          *)
(***************************************************************************)
LocatorInit == LocatorStart /\ ExtractIdle /\ CollectIdle /\ AggIdle

SpecLocator == LocatorInit /\ [][LocatorNext]_vars

ExtractInit == LocatorIdle /\ ExtractStart /\ CollectIdle /\ AggIdle

SpecExtract == ExtractInit /\ [][ExtractNext]_vars

CollectInit == LocatorIdle /\ ExtractIdle /\ CollectStart /\ AggIdle

SpecCollect == CollectInit /\ [][CollectNext]_vars

AggInit == LocatorIdle /\ ExtractIdle /\ CollectIdle /\ AggIdle

SpecAgg == AggInit /\ [][AggNext]_vars

(***************************************************************************)
(* Properties                                                              *)
(***************************************************************************)

\* C1: all ids of the merged table are pairwise distinct, whatever the
\* (pairwise distinct) repository roots and their histories
C1_IdsUnique ==
    outcome.kind = "table" =>
        \A i, j \in 1..Len(outcome.table) :
            i # j => outcome.table[i].id # outcome.table[j].id

\* C2: each resolved repository root appears at most once in the parser's paths
C2_RootsAtMostOnce ==
    \A i, j \in 1..Len(paths) : i # j => Resolved(paths[i]) # Resolved(paths[j])

C4_BadDateDropped ==
    pc = "done" => error \in {"none", "OSError"}

InBounds(entry) ==
    /\ "date" \in entry.keys
    /\ entry.date.fmt = "utc"
    /\ start_date.given => start_date.day * TicksPerDay <= entry.date.t
    /\ end_date.given => entry.date.t <= end_date.day * TicksPerDay
    /\ entry.date.t <= now

\* C5: every returned record is dated no later than now and within
\* [start_date, end_date] when given; a record the pipeline dropped after
\* parsing was rejected by a ruleset or lies outside these bounds
C5_DateFilter ==
    /\ \A i \in 1..Len(out) : InBounds(out[i])
    /\ (pc = "fetch" /\ nread > 0 /\ ~Namespaced(cur))
           => (~RulesetsAccept(cur) \/ ~InBounds(cur))

\* C5 witness: with both bounds given, one record was returned and a later
\* one, accepted by every ruleset, was dropped for its date
C5_Witness ==
    /\ start_date.given /\ end_date.given
    /\ Len(out) = 1 /\ nread = 2 /\ pc = "fetch"
    /\ ~Namespaced(cur) /\ RulesetsAccept(cur)
    /\ "date" \in cur.keys /\ cur.date.t <= now /\ cur.date.t > end_date.day * TicksPerDay

\* C6: when git exits non-zero for any repository, the collection ends with the
\* error carrying git's output and no table, whatever the failing job's
\* position and the completion order
C6_FailureIsFatal ==
    /\ outcome.kind = "table" => \A i \in 1..NumJobs : jobs[i].rc = 0
    /\ outcome.kind = "error" =>
           /\ outcome.table = <<>>
           /\ outcome.exc = "OSError"
           /\ \E i \in 1..NumJobs :
                  Finished(i) /\ jobs[i].rc # 0 /\ outcome.payload = ToolOutput(col_paths[i])
    /\ outcome.kind = "pending" => \A i \in 1..awaited : jobs[i].rc = 0

\* C6 witness: the second path's job failed and finished first; the error
\* came out once the first job's result had been taken
C6_Witness ==
    /\ outcome.kind = "error"
    /\ awaited = 2
    /\ finished = <<2, 1>>
    /\ jobs[1].st = "ok"

\* the table of the given paths and histories when job i's parser reads nows[i]
ExpectedTable(nows) ==
    Concat([i \in 1..NumJobs |->
              CreateLogEntries(col_paths[i], hist[i], NoDay, NoDay, nows[i]).entries])

PostDated(i) == \E k \in 1..Len(hist[i]) : hist[i][k].date.t - hist[i][k].date.z > 0

\* C7: the merged table is the same for every interleaving and completion
\* order of the jobs: it is the table of the run whose jobs all start at once
C7_SameForEveryInterleaving ==
    outcome.kind = "table" => outcome.table = ExpectedTable([i \in 1..NumJobs |-> 0])

\* C7 as amended: each job's frame is placed by its input position, whatever
\* the completion order; the table is the same for every interleaving when no
\* commit is dated after the call (each job filters by its own clock reading)
C7_PlacedByInputPosition ==
    outcome.kind = "table" =>
        /\ outcome.table = ExpectedTable([i \in 1..NumJobs |-> jobs[i].now])
        /\ (\A i \in 1..NumJobs : ~PostDated(i))
               => outcome.table = ExpectedTable([i \in 1..NumJobs |-> 0])

\* C7 witness: a table of two rows whose jobs completed in the reverse of the
\* input order
C7_Witness ==
    /\ outcome.kind = "table"
    /\ Len(outcome.table) >= 2
    /\ finished[1] # 1

Zero(x) == IF x.nan THEN 0 ELSE x.v
PrevBucket(b) == SetMax({x \in DOMAIN data.active_count : x < b})

\* C8: for every bucket after the first, active_count is the previous bucket's
\* active_count plus the bucket's newcomers minus its leavers, an absent count
\* being 0
C8_Recurrence ==
    data.done =>
        \A b \in DOMAIN data.active_count :
            b # SetMin(DOMAIN data.active_count) =>
                /\ ~data.active_count[b].nan
                /\ ~data.active_count[PrevBucket(b)].nan
                /\ data.active_count[b].v =
                       data.active_count[PrevBucket(b)].v
                           + Zero(data.newcomers_count[b]) - Zero(data.leaving_count[b])

WeekDay(w) == 7 * w + 2
WeekBucket(w) == 7 * w - 3

\* author A commits in weeks 1, 2, 3 and author B in weeks 3, 4
C9_Scenario ==
    /\ data.done
    /\ log = [c \in Cells |->
                IF c \in {<<"A", WeekDay(1)>>, <<"A", WeekDay(2)>>, <<"A", WeekDay(3)>>,
                          <<"B", WeekDay(3)>>, <<"B", WeekDay(4)>>}
                THEN 1 ELSE 0]

C9_Tenures ==
    /\ data.min = [a \in Authors |-> IF a = "A" THEN WeekBucket(1) ELSE WeekBucket(3)]
    /\ data.max = [a \in Authors |-> IF a = "A" THEN WeekBucket(3) ELSE WeekBucket(4)]
    /\ data.newcomers_count[WeekBucket(1)] = Num(1)
    /\ data.newcomers_count[WeekBucket(3)] = Num(1)

C10_DateFilterBeforeRulesets ==
    pc = "accept_rules" => InBounds(cur)

\* C10 as amended: date parsing, then the rulesets' acceptance predicates, then
\* the date filter, then namespacing, then the rulesets' postprocess; the
\* rulesets' predicates see every parsed record, the date filter only those
\* the rulesets accepted, and postprocess_entry the namespaced id and files
C10_PipelineOrder ==
    /\ pc = "accept_rules" => ("date" \in cur.keys => cur.date.fmt = "utc")
    /\ pc = "accept_dates" => RulesetsAccept(cur)
    /\ pc = "post_namespace" => (RulesetsAccept(cur) /\ InBounds(cur) /\ ~Namespaced(cur))
    /\ pc = "post_rules" =>
           /\ RulesetsAccept(cur) /\ InBounds(cur)
           /\ cur.id[1] = Basename(repo_path)
           /\ cur.repository = Basename(repo_path)
           /\ \A f \in cur.files : f[1] = Basename(repo_path)
           /\ cur.annotated = {}
    /\ \A i \in 1..Len(out) : Namespaced(out[i]) /\ out[i].annotated = Rulesets

\* C10 witness: after a record went through the whole pipeline, the rulesets
\* are asked about a record without a date
C10_Witness ==
    /\ pc = "accept_rules"
    /\ "date" \notin cur.keys
    /\ Len(out) = 1
    /\ out[1].files # {}
====
